---- MODULE Spec2Model ----
(***************************************************************************)
(* A model of the super-timer engine (SuperTimerBase, SuperTimer,          *)
(* SuperCountdown) and of the host scheduler it registers with             *)
(* (setTimeout, setInterval, requestAnimationFrame, performance.now).      *)
(*                                                                         *)
(* Time.  Every millisecond quantity (host clock, elapsedMs, timeMs,       *)
(* lastExecutionMs, registeredAt, delays) is held in HALF milliseconds, so *)
(* that elapsedMs takes non-integral values (x.5 ms) and Math.round has    *)
(* something to round, and so that a delay divided by the speed 2 is exact.*)
(* The host is ideal: a timeout or interval fires exactly at its deadline. *)
(*                                                                         *)
(* Engine code is written as operators on a record s holding the           *)
(* instance's fields, the host's live registrations and the host clock;    *)
(* s.err holds the exception that is propagating ("none" when none), and   *)
(* every operator passes a state with an exception through unchanged,      *)
(* which is how a throw unwinds the callers.                               *)
(*                                                                         *)
(* Two fields of the instance are written and never read by the engine:    *)
(* this.pausedAt is left out, and of this.history.events (append-only) the *)
(* record keeps s.history, the events the running operation has appended.  *)
(* Likewise s.invoked lists the user actions the running operation has     *)
(* invoked.  A property of an operation is stated over the record the      *)
(* operation returns, for every reachable state and every input.           *)
(***************************************************************************)
EXTENDS Integers, Sequences, FiniteSets, TLC

VARIABLES
    callbacks,       \* this.callbacks: the registry, in registration order
    callbackIdSeeds, \* this.callbackIdSeeds: type -> next sequence number (0: undefined)
    callbackNames,   \* this.callbackNames: type -> set of names in use
    timeouts,        \* this.timeouts: name -> handle, in insertion order
    intervals,       \* this.intervals
    rafs,            \* this.rafs
    unpausedAt,      \* this.unpausedAt: {} when undefined, {t} otherwise
    elapsedMs,       \* this.elapsedMs
    speed,           \* this.speed
    disposed,        \* this.disposed
    lib,             \* this.lib: the primitives for which it holds an injected function
    shims,           \* options.shims: the primitives the constructor was given a function for
    completeTime,    \* SuperCountdown's this.completeTime: {} for a SuperTimer
    completeCallbacks, \* SuperCountdown's this.completeCallbacks, in insertion order
    host,            \* the host scheduler: the live registrations
    now,             \* the host clock, performance.now()
    script,          \* the lists this run has yet to pass to registerCallbacks
    calls,           \* the number of calls of public operations made so far
    nextId,          \* identity of the next callback object created
    firedOnce,       \* the checkpoint-once objects whose action has run as a firing
    firedComplete    \* the completion callback objects whose action has run

vars == <<callbacks, callbackIdSeeds, callbackNames, timeouts, intervals, rafs,
          unpausedAt, elapsedMs, speed, disposed, lib, shims, completeTime,
          completeCallbacks, host, now, script, calls, nextId, firedOnce, firedComplete>>

(***************************************************************************)
(* Bounds of the model.                                                    *)
(***************************************************************************)
MaxNow == 3
MaxCalls == 3
MaxRegs == 3
MaxElapsed == 6
MaxBehind == 2
MaxLongNow == 6
MaxComplete == 2

Types == {"checkpoint", "checkpoint-once", "tick", "tick-reset"}

(***************************************************************************)
(* JavaScript values.                                                      *)
(***************************************************************************)
\* `!x` for a number | undefined: undefined and 0 are falsy.
Truthy(t) == t # {} /\ t # {0}

Val(t) == CHOOSE x \in t : TRUE

\* Math.round of a value held in half milliseconds: floor(x + 0.5).
Round(x) == 2 * ((x + 1) \div 2)

\* A Map, as the sequence of its <<key, value>> entries in insertion order.
MapHas(m, k) == \E i \in DOMAIN m : m[i][1] = k

MapGet(m, k) == m[CHOOSE i \in DOMAIN m : m[i][1] = k][2]

MapSet(m, k, v) ==
    IF MapHas(m, k)
    THEN [i \in DOMAIN m |-> IF m[i][1] = k THEN <<k, v>> ELSE m[i]]
    ELSE Append(m, <<k, v>>)

MapDelete(m, k) == SelectSeq(m, LAMBDA e : e[1] # k)

MapValues(m) == [i \in DOMAIN m |-> m[i][2]]

Range(q) == {q[i] : i \in DOMAIN q}

\* name.startsWith("!")
StartsWithBang(name) == name \in {"!countdown-complete-internal", "!x"}

(***************************************************************************)
(* Exceptions.                                                             *)
(***************************************************************************)
Throw(s, e) == [s EXCEPT !.err = e]

Ok(s) == s.err = "none"

checkDisposed(s) == IF Ok(s) /\ s.disposed THEN Throw(s, "Disposed") ELSE s

(***************************************************************************)
(* The host scheduler.                                                     *)
(***************************************************************************)
\* Handles are never reused by a host.  The model reuses a handle only when
\* nothing can tell: it is not live, no map of the engine still holds it, and
\* it was not live at any point of the running operation (s.retired).
UsedHandles(s) ==
    {r.h : r \in s.host} \cup Range(MapValues(s.timeouts))
        \cup Range(MapValues(s.intervals)) \cup Range(MapValues(s.rafs))
        \cup s.retired

NewHandle(s) == CHOOSE h \in 1..(Cardinality(UsedHandles(s)) + 1) :
                    /\ h \notin UsedHandles(s)
                    /\ \A g \in 1..(h - 1) : g \in UsedHandles(s)

\* What a closure keeps of the callback object it captured: the closures read
\* only fields that never change (type, name, timeMs, callback,
\* requireAnimationFrame), and write lastExecutionMs to the object itself.
Capture(cb) == [cb EXCEPT !.lastExecutionMs = 0, !.registeredAt = 0, !.lastFiredMs = 0]

\* clearTimeout / clearInterval / cancelAnimationFrame
Cancel(s, kind, h) ==
    [s EXCEPT !.host = {r \in @ : ~(r.h = h /\ r.kind = kind)},
              !.retired = @ \cup {h}]

RECURSIVE CancelAll(_, _, _)
CancelAll(s, kind, hs) ==
    IF hs = <<>> THEN s ELSE CancelAll(Cancel(s, kind, Head(hs)), kind, Tail(hs))

\* setTimeout(fn, delay)
SetTimeout(s, h, run, cb, eventType, source, delay) ==
    [s EXCEPT !.host = @ \cup {[h |-> h, kind |-> "timeout", due |-> s.now + delay,
                                period |-> 0, run |-> run, cb |-> Capture(cb),
                                eventType |-> eventType, source |-> source,
                                elapsedMs |-> 0,
                                injected |-> "setTimeout" \in s.lib]}]

\* setInterval(fn, period)
SetInterval(s, h, run, cb, period) ==
    [s EXCEPT !.host = @ \cup {[h |-> h, kind |-> "interval", due |-> s.now + period,
                                period |-> period, run |-> run, cb |-> Capture(cb),
                                eventType |-> "tick", source |-> 0,
                                elapsedMs |-> 0,
                                injected |-> "setInterval" \in s.lib]}]

\* requestAnimationFrame(fn)
RequestAnimationFrame(s, h, run, cb, source, e) ==
    [s EXCEPT !.host = @ \cup {[h |-> h, kind |-> "raf", due |-> 0,
                                period |-> 0, run |-> run, cb |-> Capture(cb),
                                eventType |-> "", source |-> source,
                                elapsedMs |-> e,
                                injected |-> "requestAnimationFrame" \in s.lib]}]

(***************************************************************************)
(* SuperTimerBase.                                                         *)
(***************************************************************************)
getElapsedMs(s) ==
    IF ~Truthy(s.unpausedAt)
    THEN Round(s.elapsedMs)
    ELSE Round(s.elapsedMs + (s.now - Val(s.unpausedAt)) * s.speed)

PushEvent(s, event, e, data) ==
    [s EXCEPT !.history = Append(@, [event |-> event, elapsedMs |-> e, data |-> data])]

\* obj.lastExecutionMs = e, for the callback object with identity id (an
\* object that left the registry is reachable from closures only, which
\* never read the field).  lastFiredMs is a history field the code does not
\* have: the value lastExecutionMs would hold had executeUpdateCallbacks
\* never written it.
SetLastExecutionMs(s, id, e) ==
    [s EXCEPT !.callbacks = [i \in DOMAIN @ |->
        IF @[i].id = id
        THEN [@[i] EXCEPT !.lastExecutionMs = e,
                          !.lastFiredMs = IF s.via = "update" THEN @ ELSE e]
        ELSE @[i]]]

\* for (const timeout of this.timeouts.values()) clearTimeout(timeout);
\* this.timeouts.clear()
clearTimeoutsMap(s) ==
    [CancelAll(s, "timeout", MapValues(s.timeouts)) EXCEPT !.timeouts = <<>>]

\* for (const interval of this.intervals.values()) { clearInterval(interval);
\* this.intervals.clear(); }: the map is emptied inside the loop, which ends
\* the iteration after the first entry
clearIntervalsMap(s) ==
    IF s.intervals = <<>> THEN s
    ELSE [Cancel(s, "interval", s.intervals[1][2]) EXCEPT !.intervals = <<>>]

\* for (const raf of this.rafs.values()) cancelAnimationFrame(raf);
\* this.rafs.clear()
clearRafsMap(s) ==
    [CancelAll(s, "raf", MapValues(s.rafs)) EXCEPT !.rafs = <<>>]

clearTimeouts(s, excludeIntervals) ==
    IF excludeIntervals THEN clearTimeoutsMap(s)
    ELSE clearRafsMap(clearIntervalsMap(clearTimeoutsMap(s)))


\* SuperTimer.executeCallback, defined below with the user actions
RECURSIVE executeCallback(_, _)

createEventAndInvokeCallback(s, callback, eventType, sourceCallback) ==
    IF ~Ok(s) THEN s
    ELSE IF s.disposed THEN Throw(s, "Disposed")      \* getElapsedMs() throws
    ELSE
    LET e == getElapsedMs(s)
        s1 == IF eventType # "" THEN PushEvent(s, eventType, e, callback.name) ELSE s
        target == IF sourceCallback # 0 THEN sourceCallback ELSE callback.id
    IN IF callback.requireAnimationFrame
       THEN LET h == NewHandle(s1)
            IN [RequestAnimationFrame(s1, h, "rafInvoke", callback, sourceCallback, e)
                    EXCEPT !.rafs = MapSet(@, callback.name, h)]
       ELSE executeCallback(SetLastExecutionMs(s1, target, e), callback)

\* this.rafs.set(callback.name, this.lib.requestAnimationFrame(() =>
\* this.handleRafCallback(callback)))
requestRafLoop(s, callback) ==
    IF ~Ok(s) THEN s
    ELSE [RequestAnimationFrame(s, NewHandle(s), "rafLoop", callback, 0, 0)
            EXCEPT !.rafs = MapSet(@, callback.name, NewHandle(s))]

handleRafCallback(s, callback) ==
    IF ~Ok(s) THEN s
    ELSE IF s.disposed THEN Throw(s, "Disposed")      \* getElapsedMs() throws
    ELSE IF Truthy(s.unpausedAt)
    THEN requestRafLoop(
             executeCallback(
                 PushEvent(SetLastExecutionMs(s, callback.id, getElapsedMs(s)),
                           "tick", getElapsedMs(s), callback.name),
                 callback),
             callback)
    ELSE s

handleCheckpointCallback(s, callback, eventType, sourceCallback) ==
    IF ~Ok(s) THEN s
    ELSE IF s.disposed THEN Throw(s, "Disposed")      \* getElapsedMs() throws
    ELSE
    LET e == getElapsedMs(s)
        \* timeMs and e are whole milliseconds and the speed is 1 or 2, so
        \* the quotient is a whole number of half milliseconds
        msUntilCheckpoint == (callback.timeMs - e) \div s.speed
        h == NewHandle(s)
    IN IF msUntilCheckpoint <= 0 THEN s
       ELSE [SetTimeout(s, h, "checkpointTimeout", callback, eventType,
                        sourceCallback, msUntilCheckpoint)
                EXCEPT !.timeouts = MapSet(@, callback.name, h)]

handleTickResetCallback(s, callback) ==
    IF ~Ok(s) THEN s
    ELSE IF callback.timeMs = 0 /\ callback.requireAnimationFrame
    THEN requestRafLoop(s, callback)
    ELSE LET h == NewHandle(s)
         IN [SetInterval(s, h, "tickInterval", callback, callback.timeMs \div s.speed)
                EXCEPT !.intervals = MapSet(@, callback.name, h)]

\* nextExecutionTime of handleTickCallback
nextExecutionTime(callback, e) ==
    LET naive == callback.lastExecutionMs + callback.timeMs
        fullIntervals == (e - callback.registeredAt) \div callback.timeMs
        idealNextExecutionTime ==
            callback.registeredAt + (fullIntervals + 1) * callback.timeMs
    IN IF ~callback.disableTickDriftCompensation /\ naive - idealNextExecutionTime > 0
       THEN idealNextExecutionTime
       ELSE naive

\* A faulty variant of handleTickCallback: a tick is restarted as a
\* tick-reset is.
tickAsTickReset(s, callback) == handleTickResetCallback(s, callback)

handleTickCallback(s, callback) ==
    IF ~Ok(s) THEN s
    ELSE IF s.disposed THEN Throw(s, "Disposed")      \* getElapsedMs() throws
    ELSE
    LET e == getElapsedMs(s)
    IN \* timeMs = 0: the divisions give NaN, both comparisons with NaN are
       \* false, nextExecutionTime stays lastExecutionMs + 0 and the test
       \* next < e + 0 fails whenever next > e holds
       IF callback.timeMs = 0 THEN handleTickResetCallback(s, callback)
       ELSE LET next == nextExecutionTime(callback, e)
            IN IF next > e /\ next < e + callback.timeMs
               THEN handleCheckpointCallback(
                        s,
                        [callback EXCEPT
                            !.callback = <<"tickFirst", callback.callback[1], callback.timeMs>>,
                            !.timeMs = next],
                        "tick", callback.id)
               ELSE handleTickResetCallback(s, callback)

RECURSIVE startLoop(_, _)
startLoop(s, cbs) ==
    IF ~Ok(s) \/ cbs = <<>> THEN s
    ELSE LET callback == Head(cbs)
             s1 == CASE callback.type \in {"checkpoint", "checkpoint-once"} ->
                            handleCheckpointCallback(s, callback, "checkpoint", 0)
                      [] callback.type = "tick-reset" ->
                            handleTickResetCallback(s, callback)
                      [] callback.type = "tick" ->
                            handleTickCallback(s, callback)
         IN startLoop(s1, Tail(cbs))

startCallbacks(s, cbs) ==
    IF ~Ok(s) THEN s
    ELSE IF ~Truthy(s.unpausedAt) THEN s
    ELSE startLoop(s, cbs)

\* for (const callback of this.callbacks): the array iterator reads the live
\* array by index
RECURSIVE updateLoop(_, _)
updateLoop(s, i) ==
    IF ~Ok(s) \/ i > Len(s.callbacks) THEN s
    ELSE LET callback == s.callbacks[i]
         IN updateLoop(
                IF callback.executeOnUpdate
                THEN createEventAndInvokeCallback(
                         s, callback,
                         IF callback.type = "checkpoint" THEN "checkpoint" ELSE "tick", 0)
                ELSE s,
                i + 1)

executeUpdateCallbacks(s) ==
    IF ~Ok(s) THEN s
    ELSE [updateLoop([s EXCEPT !.via = "update"], 1) EXCEPT !.via = s.via]


\* One entry of registerCallbacks: the callback object the engine stores.
internalCallback(s, callback, callbackName) ==
    [id |-> s.nextId,
     name |-> callbackName,
     callback |-> <<callback.callback>>,
     timeMs |-> callback.timeMs,
     type |-> callback.type,
     requireAnimationFrame |-> callback.requireAnimationFrame,
     executeOnUpdate |-> callback.executeOnUpdate,
     logExecutions |-> callback.logExecutions,
     lastExecutionMs |-> getElapsedMs(s),
     lastFiredMs |-> getElapsedMs(s),
     registeredAt |-> getElapsedMs(s),
     disableTickDriftCompensation |-> callback.disableTickDriftCompensation]

\* callback.name ?? `${callback.type}-${callbackIdSeed}`
callbackNameOf(callback, callbackIdSeed) ==
    IF callback.name # <<>> THEN callback.name[1]
    ELSE callback.type \o "-" \o ToString(callbackIdSeed)

RECURSIVE registerLoop(_, _, _)
registerLoop(s, list, callbacksToStart) ==
    IF ~Ok(s) THEN s
    ELSE IF list = <<>> THEN startCallbacks(s, callbacksToStart)
    ELSE
    LET callback == Head(list)
        s1 == IF s.callbackIdSeeds[callback.type] = 0
              THEN [s EXCEPT !.callbackIdSeeds[callback.type] = 1,
                             !.callbackNames[callback.type] = {}]
              ELSE s
        callbackName == callbackNameOf(callback, s1.callbackIdSeeds[callback.type])
        new == internalCallback(s1, callback, callbackName)
    IN IF callbackName \in s1.callbackNames[callback.type]
       THEN Throw(s1, "NameConflict")
       ELSE registerLoop(
                [s1 EXCEPT !.callbacks = Append(@, new),
                           !.callbackIdSeeds[callback.type] = @ + 1,
                           !.callbackNames[callback.type] = @ \cup {callbackName},
                           !.nextId = @ + 1],
                Tail(list), Append(callbacksToStart, new))

registerCallbacks(s, list) ==
    LET s0 == checkDisposed(s)
    IN IF ~Ok(s0) THEN s0 ELSE registerLoop(s0, list, <<>>)

\* this.callbacks.findIndex(c => c.name === name), then splice(index, 1)
spliceByName(cbs, name) ==
    IF \E i \in DOMAIN cbs : cbs[i].name = name
    THEN LET index == CHOOSE i \in DOMAIN cbs :
                        /\ cbs[i].name = name
                        /\ \A j \in 1..(i - 1) : cbs[j].name # name
         IN SubSeq(cbs, 1, index - 1) \o SubSeq(cbs, index + 1, Len(cbs))
    ELSE cbs

\* if (this.timeouts.has(name)) { clearTimeout(...); this.timeouts.delete(name) }
removeTimeout(s, name) ==
    IF MapHas(s.timeouts, name)
    THEN [Cancel(s, "timeout", MapGet(s.timeouts, name))
            EXCEPT !.timeouts = MapDelete(@, name)]
    ELSE s

removeInterval(s, name) ==
    IF MapHas(s.intervals, name)
    THEN [Cancel(s, "interval", MapGet(s.intervals, name))
            EXCEPT !.intervals = MapDelete(@, name)]
    ELSE s

removeRaf(s, name) ==
    IF MapHas(s.rafs, name)
    THEN [Cancel(s, "raf", MapGet(s.rafs, name))
            EXCEPT !.rafs = MapDelete(@, name)]
    ELSE s

\* the record: findIndex by name alone, splice; the name: deleted from the
\* name set of every type
removeRecord(s, name) ==
    [s EXCEPT !.callbacks = spliceByName(@, name),
              !.callbackNames = [t \in Types |-> @[t] \ {name}]]

removeOne(s, name) ==
    removeRecord(removeRaf(removeInterval(removeTimeout(s, name), name), name), name)

RECURSIVE removeLoop(_, _)
removeLoop(s, names) ==
    IF names = <<>> THEN s ELSE removeLoop(removeOne(s, Head(names)), Tail(names))

removeCallbacks(s, names) ==
    LET s0 == checkDisposed(s)
    IN IF ~Ok(s0) THEN s0 ELSE removeLoop(s0, names)

removeAllCallbacks(s) ==
    LET s0 == checkDisposed(s)
        callbacksToRemove == SelectSeq(s.callbacks, LAMBDA c : ~StartsWithBang(c.name))
    IN IF ~Ok(s0) THEN s0
       ELSE removeCallbacks(s0, [i \in DOMAIN callbacksToRemove |-> callbacksToRemove[i].name])

\* the parameter suppressUpdateCallbacks is not read by the body
\* this.unpausedAt = this.lib.performance.now();
\* this.history.events.push({ event: "unpause", elapsedMs: this.getElapsedMs() })
markUnpaused(s) ==
    [s EXCEPT !.unpausedAt = {s.now},
              !.history = Append(@, [event |-> "unpause",
                                     elapsedMs |-> Round(s.elapsedMs),
                                     data |-> ""])]

\* this.startCallbacks(this.callbacks)
startAll(s) == startCallbacks(s, s.callbacks)

\* A faulty variant of superUnpause: without the test of this.unpausedAt.
unpauseUnguarded(s, suppressUpdateCallbacks) ==
    IF ~Ok(s) THEN s
    ELSE IF s.disposed THEN Throw(s, "Disposed")
    ELSE executeUpdateCallbacks(startAll(markUnpaused(s)))

\* SuperTimerBase.unpause
superUnpause(s, suppressUpdateCallbacks) ==
    IF ~Ok(s) THEN s
    ELSE IF s.disposed THEN Throw(s, "Disposed")
    ELSE IF Truthy(s.unpausedAt) THEN s
    ELSE executeUpdateCallbacks(startAll(markUnpaused(s)))

\* SuperCountdown.getTimeRemaining, on an instance that is not disposed
getTimeRemaining(s) == Val(s.completeTime) - getElapsedMs(s)

\* SuperCountdown.isDone, on an instance that is not disposed
isDone(s) == getTimeRemaining(s) <= 0

\* A faulty variant of countdownUnpause: without the isDone test.
resumeWhenDone(s) == superUnpause(s, FALSE)

\* SuperCountdown.unpause: it takes no parameter and passes none on
countdownUnpause(s) ==
    IF ~Ok(s) THEN s
    ELSE IF s.disposed THEN Throw(s, "Disposed")      \* getElapsedMs() throws
    ELSE IF ~isDone(s) THEN superUnpause(s, FALSE)
    ELSE s

\* this.unpause(...): SuperCountdown overrides the method
unpause(s, suppressUpdateCallbacks) ==
    IF s.completeTime # {} THEN countdownUnpause(s)
    ELSE superUnpause(s, suppressUpdateCallbacks)

start(s) == unpause(s, FALSE)

\* A faulty variant of foldElapsed: the segment is not scaled by the speed.
foldUnscaled(s) ==
    [s EXCEPT !.elapsedMs = @ + (s.now - Val(s.unpausedAt)),
              !.unpausedAt = {},
              !.history = Append(@, [event |-> "pause",
                                     elapsedMs |-> s.elapsedMs + (s.now - Val(s.unpausedAt)),
                                     data |-> ""])]

\* this.elapsedMs += elapsedSinceLastPause; this.unpausedAt = undefined;
\* this.history.events.push({ event: "pause", elapsedMs: this.elapsedMs })
foldElapsed(s) ==
    [s EXCEPT !.elapsedMs = @ + (s.now - Val(s.unpausedAt)) * s.speed,
              !.unpausedAt = {},
              !.history = Append(@, [event |-> "pause",
                                     elapsedMs |-> s.elapsedMs
                                                   + (s.now - Val(s.unpausedAt)) * s.speed,
                                     data |-> ""])]

\* if (!suppressUpdateCallbacks) this.executeUpdateCallbacks()
unlessSuppressed(s, suppressUpdateCallbacks) ==
    IF ~suppressUpdateCallbacks THEN executeUpdateCallbacks(s) ELSE s

pause(s, suppressUpdateCallbacks) ==
    IF ~Ok(s) THEN s
    ELSE IF s.disposed THEN Throw(s, "Disposed")
    ELSE IF ~Truthy(s.unpausedAt) THEN [s EXCEPT !.ret = FALSE]
    ELSE [unlessSuppressed(clearTimeouts(foldElapsed(s), FALSE), suppressUpdateCallbacks)
            EXCEPT !.ret = TRUE]

dispose(s) == [clearTimeouts(s, FALSE) EXCEPT !.disposed = TRUE]

\* Array.prototype.sort((a, b) => a.timeMs - b.timeMs), which is stable
RECURSIVE insertSorted(_, _)
insertSorted(sorted, c) ==
    IF sorted = <<>> THEN <<c>>
    ELSE IF Head(sorted).timeMs <= c.timeMs
    THEN <<Head(sorted)>> \o insertSorted(Tail(sorted), c)
    ELSE <<c>> \o sorted

RECURSIVE sortByTimeMs(_)
sortByTimeMs(cbs) ==
    IF cbs = <<>> THEN <<>>
    ELSE insertSorted(sortByTimeMs(SubSeq(cbs, 1, Len(cbs) - 1)), cbs[Len(cbs)])

\* A faulty variant of sortedCallbacks: the filter without the sort.
unsortedCallbacks(s) ==
    SelectSeq(s.callbacks, LAMBDA c : c.type = "checkpoint")

\* this.callbacks.filter(c => c.type === "checkpoint").sort(...)
sortedCallbacks(s) ==
    sortByTimeMs(SelectSeq(s.callbacks, LAMBDA c : c.type = "checkpoint"))

\* A faulty variant of crossed: the interval closed at oldElapsed.
crossedFromOldElapsed(callback, oldElapsed, ms) ==
    callback.timeMs >= oldElapsed /\ callback.timeMs <= oldElapsed + ms

\* callback.timeMs > oldElapsed && callback.timeMs <= oldElapsed + ms
crossed(callback, oldElapsed, ms) ==
    callback.timeMs > oldElapsed /\ callback.timeMs <= oldElapsed + ms

RECURSIVE crossLoop(_, _, _, _)
crossLoop(s, cbs, oldElapsed, ms) ==
    IF ~Ok(s) \/ cbs = <<>> THEN s
    ELSE crossLoop(
            IF crossed(Head(cbs), oldElapsed, ms)
            THEN createEventAndInvokeCallback(s, Head(cbs), "checkpoint", 0)
            ELSE s,
            Tail(cbs), oldElapsed, ms)

\* A faulty variant of crossCheckpoints: suppressCallbacks is not read.
crossAlways(s, oldElapsed, ms, suppressCallbacks) ==
    IF ~Ok(s) THEN s
    ELSE [crossLoop([s EXCEPT !.via = "cross"], sortedCallbacks(s), oldElapsed, ms)
            EXCEPT !.via = s.via]

\* if (!suppressCallbacks) for (const callback of sortedCallbacks) ...
crossCheckpoints(s, oldElapsed, ms, suppressCallbacks) ==
    IF ~Ok(s) \/ suppressCallbacks THEN s
    ELSE [crossLoop([s EXCEPT !.via = "cross"], sortedCallbacks(s), oldElapsed, ms)
            EXCEPT !.via = s.via]

\* A faulty variant of resume: the clock is left as pause(true) left it.
neverResume(s, wasPaused) == s

\* if (!this.unpausedAt && wasPaused) this.unpause(true)
resume(s, wasPaused) ==
    IF ~Ok(s) THEN s
    ELSE IF ~Truthy(s.unpausedAt) /\ wasPaused THEN unpause(s, TRUE)
    ELSE s

\* _addTime from `const oldElapsed = this.getElapsedMs()` on; s is the state
\* this.pause(true) left, s.ret the value it returned
addTimePaused(s, ms, suppressCallbacks) ==
    IF ~Ok(s) THEN s
    ELSE resume(
             executeUpdateCallbacks(
                 crossCheckpoints([s EXCEPT !.elapsedMs = @ + ms],
                                  getElapsedMs(s), ms, suppressCallbacks)),
             s.ret)

_addTime(s, ms, suppressCallbacks) ==
    IF ~Ok(s) THEN s
    ELSE addTimePaused(pause(clearTimeouts(s, TRUE), TRUE), ms, suppressCallbacks)

addTime(s, ms, suppressCallbacks) ==
    LET s0 == checkDisposed(s)
    IN IF ~Ok(s0) THEN s0
       ELSE _addTime(PushEvent(s, "addTime", getElapsedMs(s), ms), ms, suppressCallbacks)

setTime(s, ms, suppressCallbacks) ==
    LET s0 == checkDisposed(s)
        e == getElapsedMs(s)
        timeToAdd == ms - e
    IN IF ~Ok(s0) THEN s0
       ELSE _addTime(PushEvent(s, "setTime", e, ms), timeToAdd, suppressCallbacks)

getState(s) == checkDisposed(s)

\* A faulty variant of countdownAddTime: the sign is kept.
addTimeSameSign(s, ms, suppressCallbacks) == addTime(s, ms, suppressCallbacks)

\* SuperCountdown.addTime
countdownAddTime(s, ms, suppressCallbacks) == addTime(s, 0 - ms, suppressCallbacks)

\* SuperCountdown.setTimeRemaining
setTimeRemaining(s, ms, suppressCallbacks) ==
    setTime(s, Val(s.completeTime) - ms, suppressCallbacks)

\* SuperCountdown.registerCompleteCallback
registerCompleteCallback(s, callback, once) ==
    LET s0 == checkDisposed(s)
    IN IF ~Ok(s0) THEN s0
       ELSE [s EXCEPT !.completeCallbacks =
                          Append(@, [id |-> s.nextId, callback |-> callback, once |-> once]),
                      !.nextId = @ + 1]

\* this.speed = speedMultiplier; this.history.events.push({ event: "setSpeed",
\* elapsedMs: this.elapsedMs, data: speedMultiplier })
setSpeed(s, speedMultiplier) ==
    IF ~Ok(s) THEN s
    ELSE PushEvent([s EXCEPT !.speed = speedMultiplier],
                   "setSpeed", s.elapsedMs, speedMultiplier)

setSpeedMultiplier(s, speedMultiplier) ==
    IF speedMultiplier # s.speed
    THEN IF Truthy(s.unpausedAt)
         THEN unpause(setSpeed(pause(s, FALSE), speedMultiplier), FALSE)
         ELSE setSpeed(s, speedMultiplier)
    ELSE s

(***************************************************************************)
(* The user actions (callback.callback), and SuperTimer.executeCallback.   *)
(* An action is one of: "noop" (touches nothing), "dispose", "pause",      *)
(* "unpause", "removeAll" (calls that method of the timer it is handed),   *)
(* "restart" (calls pause() and then unpause()), and "complete", the       *)
(* action of a countdown's internal checkpoint.  The action of a           *)
(* completion callback touches nothing.                                    *)
(***************************************************************************)
\* completeCallback.callback(timer)
invokeComplete(s, completeCallback) ==
    [s EXCEPT !.invoked = Append(@, [id |-> completeCallback.id, name |-> "",
                                     type |-> "complete", timeMs |-> 0, via |-> s.via,
                                     paused |-> ~Truthy(s.unpausedAt)]),
              !.firedComplete = @ \cup {completeCallback.id}]

\* A faulty variant of deleteIfOnce: nothing is deleted.
keepComplete(s, completeCallback) == s

\* if (completeCallback.once) this.completeCallbacks.delete(completeCallback)
deleteIfOnce(s, completeCallback) ==
    IF completeCallback.once
    THEN [s EXCEPT !.completeCallbacks =
                       SelectSeq(@, LAMBDA c : c.id # completeCallback.id)]
    ELSE s

RECURSIVE completeLoop(_, _)
completeLoop(s, snapshot) ==
    IF snapshot = <<>> THEN s
    ELSE completeLoop(deleteIfOnce(invokeComplete(s, Head(snapshot)), Head(snapshot)),
                      Tail(snapshot))

\* const completeCallbacksSnapshot = [...this.completeCallbacks]; for (...) ...
runCompleteCallbacks(s) == IF ~Ok(s) THEN s ELSE completeLoop(s, s.completeCallbacks)

\* A faulty variant of complete: the completion callbacks run first.
completeCallbacksFirst(s) == setTimeRemaining(pause(runCompleteCallbacks(s), FALSE), 0, TRUE)

\* the action of the checkpoint "!countdown-complete-internal"
complete(s) == runCompleteCallbacks(setTimeRemaining(pause(s, FALSE), 0, TRUE))

userAction(s, callback) ==
    LET act == callback.callback[1]
        s1 == [s EXCEPT
                !.invoked = Append(@, [id |-> callback.id, name |-> callback.name,
                                       type |-> callback.type,
                                       timeMs |-> callback.timeMs, via |-> s.via,
                                       paused |-> ~Truthy(s.unpausedAt)]),
                !.firedOnce = IF callback.type = "checkpoint-once" /\ s.via # "update"
                              THEN @ \cup {callback.id} ELSE @]
    IN CASE act = "noop" -> s1
         [] act = "dispose" -> dispose(s1)
         [] act = "pause" -> pause(s1, FALSE)
         [] act = "unpause" -> unpause(s1, FALSE)
         [] act = "restart" -> unpause(pause(s1, FALSE), FALSE)
         [] act = "removeAll" -> removeAllCallbacks(s1)
         [] act = "complete" -> complete(s1)

executeCallback(s, callback) ==
    IF ~Ok(s) THEN s
    ELSE IF callback.callback[1] = "tickFirst"
    THEN \* the closure handleTickCallback wraps around a tick callback:
         \* this.handleTickResetCallback(callback); callback.callback(timer)
         LET original == [callback EXCEPT !.callback = <<callback.callback[2]>>,
                                          !.timeMs = callback.callback[3]]
         IN userAction(handleTickResetCallback(s, original), original)
    ELSE userAction(s, callback)


(***************************************************************************)
(* The closures the engine hands to the host.                              *)
(***************************************************************************)
\* handleCheckpointCallback's setTimeout closure
checkpointTimeout(s, r) ==
    LET s1 == IF r.cb.type = "checkpoint-once"
              THEN removeCallbacks(s, <<r.cb.name>>)
              ELSE s
    IN createEventAndInvokeCallback(s1, r.cb, r.eventType, r.source)

\* handleTickResetCallback's setInterval closure
tickInterval(s, r) == createEventAndInvokeCallback(s, r.cb, "tick", 0)

\* handleTickResetCallback's and handleRafCallback's frame closure
rafLoop(s, r) == handleRafCallback(s, r.cb)

\* createEventAndInvokeCallback's frame closure
rafInvoke(s, r) ==
    executeCallback(
        SetLastExecutionMs(s, IF r.source # 0 THEN r.source ELSE r.cb.id, r.elapsedMs),
        r.cb)

(***************************************************************************)
(* The inputs.                                                             *)
(***************************************************************************)
Entry(type, name, timeMs, action, raf, onUpdate) ==
    [type |-> type, name |-> name, timeMs |-> timeMs, callback |-> action,
     requireAnimationFrame |-> raf, executeOnUpdate |-> onUpdate,
     logExecutions |-> FALSE, disableTickDriftCompensation |-> FALSE]

\* The runs: options.callbacks of the constructor, and the lists that the
\* run's later calls of registerCallbacks pass, in order (times in half
\* milliseconds).
Scripts ==
    { \* two checkpoints, registered in descending order of their targets
      [callbacks |-> <<Entry("checkpoint", <<"a">>, 4, "noop", FALSE, FALSE),
                       Entry("checkpoint", <<"b">>, 2, "noop", FALSE, TRUE)>>,
       later |-> <<>>],
      \* a checkpoint and a checkpoint-once of the same name; a second
      \* checkpoint-once of that name is registered later
      [callbacks |-> <<Entry("checkpoint", <<"a">>, 4, "noop", FALSE, FALSE),
                       Entry("checkpoint-once", <<"a">>, 2, "noop", FALSE, FALSE)>>,
       later |-> << <<Entry("checkpoint-once", <<"a">>, 2, "noop", FALSE, FALSE)>> >>],
      \* two periodic callbacks, one of them frame-synchronised
      [callbacks |-> <<Entry("tick-reset", <<"p">>, 2, "noop", FALSE, FALSE),
                       Entry("tick-reset", <<"q">>, 2, "noop", TRUE, FALSE)>>,
       later |-> <<>>],
      \* an every-frame callback whose action disposes the timer, and a tick
      [callbacks |-> <<Entry("tick-reset", <<"f">>, 0, "dispose", TRUE, FALSE),
                       Entry("tick", <<>>, 4, "noop", FALSE, FALSE)>>,
       later |-> <<>>],
      \* a checkpoint whose action disposes the timer, and a frame-synchronised
      \* checkpoint
      [callbacks |-> <<Entry("checkpoint", <<"s">>, 2, "dispose", FALSE, FALSE),
                       Entry("checkpoint", <<"r">>, 4, "noop", TRUE, FALSE)>>,
       later |-> <<>>],
      \* an every-frame callback whose action removes all callbacks, and a
      \* checkpoint with a protected name
      [callbacks |-> <<Entry("tick-reset", <<"g">>, 0, "removeAll", TRUE, FALSE),
                       Entry("checkpoint", <<"!x">>, 4, "noop", FALSE, FALSE)>>,
       later |-> <<>>] }

Speeds == {1, 2}

AddTimes == {-2, 2, 4}

SetTimes == {0, 4}

RemoveNames == {"a", "p", "f"}

(***************************************************************************)
(* The state machine.                                                      *)
(***************************************************************************)
\* The engine and host state an operation starts from.
St == [callbacks |-> callbacks, callbackIdSeeds |-> callbackIdSeeds,
       callbackNames |-> callbackNames, timeouts |-> timeouts,
       intervals |-> intervals, rafs |-> rafs, unpausedAt |-> unpausedAt,
       elapsedMs |-> elapsedMs, speed |-> speed, disposed |-> disposed,
       lib |-> lib, shims |-> shims,
       completeTime |-> completeTime, completeCallbacks |-> completeCallbacks,
       host |-> host, now |-> now, nextId |-> nextId, firedOnce |-> firedOnce,
       firedComplete |-> firedComplete,
       history |-> <<>>, invoked |-> <<>>,
       err |-> "none", ret |-> FALSE, retired |-> {}, via |-> "call"]

\* The operation's result becomes the state, within the bounds of the model.
Commit(t) ==
    /\ Cardinality(t.host) <= MaxRegs
    /\ t.elapsedMs <= MaxElapsed
    /\ t.elapsedMs >= 0 - MaxBehind
    /\ callbacks' = t.callbacks
    /\ callbackIdSeeds' = t.callbackIdSeeds
    /\ callbackNames' = t.callbackNames
    /\ timeouts' = t.timeouts
    /\ intervals' = t.intervals
    /\ rafs' = t.rafs
    /\ unpausedAt' = t.unpausedAt
    /\ elapsedMs' = t.elapsedMs
    /\ speed' = t.speed
    /\ disposed' = t.disposed
    /\ lib' = t.lib
    /\ shims' = t.shims
    /\ completeTime' = t.completeTime
    /\ completeCallbacks' = t.completeCallbacks
    /\ host' = t.host
    /\ now' = t.now
    /\ nextId' = t.nextId
    /\ firedOnce' = t.firedOnce
    /\ firedComplete' = t.firedComplete

\* The fields of a new instance (the field initialisers of SuperTimerBase),
\* on a host whose clock reads 0 and that holds no registration.
New == [callbacks |-> <<>>, callbackIdSeeds |-> [t \in Types |-> 0],
        callbackNames |-> [t \in Types |-> {}], timeouts |-> <<>>,
        intervals |-> <<>>, rafs |-> <<>>, unpausedAt |-> {},
        elapsedMs |-> 0, speed |-> 1, disposed |-> FALSE,
        lib |-> {}, shims |-> {},
        completeTime |-> {}, completeCallbacks |-> <<>>,
        host |-> {}, now |-> 0, nextId |-> 1, firedOnce |-> {},
        firedComplete |-> {},
        history |-> <<>>, invoked |-> <<>>,
        err |-> "none", ret |-> FALSE, retired |-> {}, via |-> "call"]

\* defaultedOptions.timerSpeedMultiplier || 1.0: an option that is absent,
\* undefined (<<>>) or 0 gives 1
defaultedSpeed(options) ==
    IF "timerSpeedMultiplier" \in DOMAIN options
    THEN IF options.timerSpeedMultiplier # <<>> /\ options.timerSpeedMultiplier # <<0>>
         THEN options.timerSpeedMultiplier[1]
         ELSE 1
    ELSE 1

\* The members of TimerShims.
ShimNames ==
    {"setTimeout", "clearTimeout", "setInterval", "clearInterval",
     "requestAnimationFrame", "cancelAnimationFrame", "performance", "Date"}

\* { ...defaultOptions.shims, ...options.shims }: the primitives for which the
\* merged object holds the function of options.shims
defaultedShims(options) ==
    IF "shims" \in DOMAIN options THEN options.shims ELSE {}

\* new SuperTimer(options): the constructor registers options.callbacks, then
\* sets this.lib = defaultOptions.shims (no member of it is an injected
\* function) and the speed
constructor(options) ==
    [registerCallbacks(New, options.callbacks)
        EXCEPT !.lib = {},
               !.shims = defaultedShims(options),
               !.speed = defaultedSpeed(options)]

\* The checkpoint the constructor of SuperCountdown registers.
internalCheckpoint(timeMs) ==
    [type |-> "checkpoint", name |-> <<"!countdown-complete-internal">>,
     timeMs |-> timeMs, callback |-> "complete",
     requireAnimationFrame |-> FALSE, executeOnUpdate |-> FALSE,
     logExecutions |-> FALSE, disableTickDriftCompensation |-> FALSE]

\* if (onComplete) this.registerCompleteCallback(onComplete)
registerOnComplete(s, onComplete) ==
    IF onComplete # <<>> THEN registerCompleteCallback(s, onComplete[1], FALSE) ELSE s

\* new SuperCountdown(timeMs, onComplete, timerOptions)
SuperCountdown(timeMs, onComplete, timerOptions) ==
    registerOnComplete(
        registerCallbacks([constructor(timerOptions) EXCEPT !.completeTime = {timeMs}],
                          <<internalCheckpoint(timeMs)>>),
        onComplete)

\* The state a constructed instance t starts in.
Constructed(t) ==
    /\ Ok(t)
    /\ callbacks = t.callbacks
    /\ callbackIdSeeds = t.callbackIdSeeds
    /\ callbackNames = t.callbackNames
    /\ timeouts = t.timeouts
    /\ intervals = t.intervals
    /\ rafs = t.rafs
    /\ unpausedAt = t.unpausedAt
    /\ elapsedMs = t.elapsedMs
    /\ speed = t.speed
    /\ disposed = t.disposed
    /\ lib = t.lib
    /\ shims = t.shims
    /\ completeTime = t.completeTime
    /\ completeCallbacks = t.completeCallbacks
    /\ host = t.host
    /\ now = t.now
    /\ nextId = t.nextId
    /\ firedOnce = t.firedOnce
    /\ firedComplete = t.firedComplete

Init ==
    \E options \in Scripts :
        /\ Constructed(constructor(options))
        /\ script = options.later
        /\ calls = 0

\* A call of a public operation by the program that owns the timer.
Call(t) ==
    /\ calls < MaxCalls
    /\ calls' = calls + 1
    /\ Commit(t)

\* A callback of the host.
Host(t) == Commit(t) /\ UNCHANGED <<calls, script>>

RegisterCallbacks ==
    /\ script # <<>>
    /\ script' = Tail(script)
    /\ Call(registerCallbacks(St, Head(script)))

RemoveCallbacks ==
    \E name \in RemoveNames :
        Call(removeCallbacks(St, <<name>>)) /\ UNCHANGED script

RemoveAllCallbacks == Call(removeAllCallbacks(St)) /\ UNCHANGED script

Unpause == Call(unpause(St, FALSE)) /\ UNCHANGED script

Start == Call(start(St)) /\ UNCHANGED script

Pause == Call(pause(St, FALSE)) /\ UNCHANGED script

Dispose == Call(dispose(St)) /\ UNCHANGED script

AddTime ==
    \E ms \in AddTimes, suppress \in BOOLEAN :
        Call(addTime(St, ms, suppress)) /\ UNCHANGED script

SetTime ==
    \E ms \in SetTimes, suppress \in BOOLEAN :
        Call(setTime(St, ms, suppress)) /\ UNCHANGED script

GetState == Call(getState(St)) /\ UNCHANGED script

SetSpeedMultiplier ==
    \E sp \in Speeds :
        Call(setSpeedMultiplier(St, sp)) /\ UNCHANGED script

\* A timer (timeout or interval) of the host is due.
Due(r) == r.kind \in {"timeout", "interval"} /\ r.due <= now

\* The host runs timeout r: the registration is consumed, then its closure runs.
fireTimeout(s, r) ==
    checkpointTimeout([s EXCEPT !.host = @ \ {r}, !.retired = {r.h}, !.via = "timer"], r)

\* The host runs interval r: it is re-armed one period later, then its closure runs.
fireInterval(s, r) ==
    tickInterval([s EXCEPT !.host = (@ \ {r}) \cup {[r EXCEPT !.due = s.now + r.period]},
                           !.via = "timer"], r)

\* The host runs frame callback r: the request is consumed, then its closure runs.
fireFrame(s, r) ==
    LET s1 == [s EXCEPT !.host = @ \ {r}, !.retired = {r.h}, !.via = "frame"]
    IN IF r.run = "rafLoop" THEN rafLoop(s1, r) ELSE rafInvoke(s1, r)

FireTimeout ==
    \E r \in host :
        /\ r.kind = "timeout" /\ Due(r)
        /\ Host(fireTimeout(St, r))

FireInterval ==
    \E r \in host :
        /\ r.kind = "interval" /\ Due(r)
        /\ Host(fireInterval(St, r))

FireFrame ==
    \E r \in host :
        /\ r.kind = "raf"
        /\ Host(fireFrame(St, r))

\* Host time passes; a due timer runs before the clock moves on.  The engine
\* reads the host clock only for the differences now - unpausedAt and for the
\* test !unpausedAt, and the host compares it with the deadlines: while the
\* clock reads a positive time, the timer is not running and no timeout or
\* interval is live, the passing of time changes nothing but the origin of
\* the time axis, and the model does not let it pass.
Elapse(limit) ==
    /\ now < limit
    /\ \A r \in host : ~Due(r)
    /\ \/ now = 0
       \/ Truthy(unpausedAt)
       \/ \E r \in host : r.kind \in {"timeout", "interval"}
    /\ Host([St EXCEPT !.now = now + 1])

AdvanceTime == Elapse(MaxNow)

Next ==
    \/ RegisterCallbacks
    \/ RemoveCallbacks
    \/ RemoveAllCallbacks
    \/ Unpause
    \/ Start
    \/ Pause
    \/ Dispose
    \/ AddTime
    \/ SetTime
    \/ GetState
    \/ SetSpeedMultiplier
    \/ FireTimeout
    \/ FireInterval
    \/ FireFrame
    \/ AdvanceTime

Spec == Init /\ [][Next]_vars

(***************************************************************************)
(* The countdown: the runs of a SuperCountdown.                            *)
(***************************************************************************)
\* The arguments of the constructor (times in half milliseconds).
Countdowns ==
    { [timeMs |-> 4, onComplete |-> <<"noop">>, options |-> [callbacks |-> <<>>]],
      [timeMs |-> 4, onComplete |-> <<>>,
       options |-> [callbacks |->
                       <<Entry("checkpoint", <<"u">>, 2, "noop", FALSE, TRUE)>>]] }

CountdownAddTimes == {-4, 2}

TimesRemaining == {0, 2}

CountdownInit ==
    \E k \in Countdowns :
        /\ Constructed(SuperCountdown(k.timeMs, k.onComplete, k.options))
        /\ script = <<>>
        /\ calls = 0

CountdownAddTime ==
    \E ms \in CountdownAddTimes, suppress \in BOOLEAN :
        Call(countdownAddTime(St, ms, suppress)) /\ UNCHANGED script

SetTimeRemaining ==
    \E ms \in TimesRemaining, suppress \in BOOLEAN :
        Call(setTimeRemaining(St, ms, suppress)) /\ UNCHANGED script

RegisterCompleteCallback ==
    \E once \in BOOLEAN :
        /\ Len(completeCallbacks) < MaxComplete
        /\ Call(registerCompleteCallback(St, "noop", once))
        /\ UNCHANGED script

CountdownAdvanceTime == Elapse(MaxLongNow)

CountdownNext ==
    \/ Unpause
    \/ Pause
    \/ RemoveAllCallbacks
    \/ SetSpeedMultiplier
    \/ CountdownAddTime
    \/ SetTimeRemaining
    \/ RegisterCompleteCallback
    \/ FireTimeout
    \/ CountdownAdvanceTime

CountdownSpec == CountdownInit /\ [][CountdownNext]_vars

(***************************************************************************)
(* The periodic callbacks: runs of a SuperTimer over a longer time, with   *)
(* pause and unpause only (PauseSpec), and with changes of the elapsed     *)
(* time and of the speed as well (TickSpec).                               *)
(***************************************************************************)
TickScripts ==
    { \* a tick, drift compensation enabled
      [callbacks |-> <<Entry("tick", <<"t">>, 4, "noop", FALSE, FALSE)>>],
      \* a tick, drift compensation disabled
      [callbacks |-> <<[Entry("tick", <<"n">>, 4, "noop", FALSE, FALSE)
                            EXCEPT !.disableTickDriftCompensation = TRUE]>>],
      \* a tick-reset and a tick, in both orders of registration
      [callbacks |-> <<Entry("tick-reset", <<"p">>, 4, "noop", FALSE, FALSE),
                       Entry("tick", <<"t">>, 4, "noop", FALSE, FALSE)>>],
      [callbacks |-> <<Entry("tick", <<"t">>, 4, "noop", FALSE, FALSE),
                       Entry("tick-reset", <<"p">>, 4, "noop", FALSE, FALSE)>>] }

TickInit ==
    \E options \in TickScripts :
        /\ Constructed(constructor(options))
        /\ script = <<>>
        /\ calls = 0

LongAdvanceTime == Elapse(MaxLongNow)

PauseNext ==
    \/ Unpause
    \/ Start
    \/ Pause
    \/ FireTimeout
    \/ FireInterval
    \/ LongAdvanceTime

PauseSpec == TickInit /\ [][PauseNext]_vars

TickNext ==
    \/ Unpause
    \/ Pause
    \/ AddTime
    \/ SetTime
    \/ SetSpeedMultiplier
    \/ FireTimeout
    \/ FireInterval
    \/ LongAdvanceTime

TickSpec == TickInit /\ [][TickNext]_vars

(***************************************************************************)
(* The speed: runs of a SuperTimer whose speed is given to the constructor *)
(* and changed to any number.  The runs register no callback: a delay or   *)
(* period computed from a speed that is not positive is negative or        *)
(* infinite, and what a host makes of it differs from host to host.        *)
(***************************************************************************)
SpeedOptions ==
    {[callbacks |-> <<>>, timerSpeedMultiplier |-> k] : k \in {<<>>, <<0>>, <<-1>>, <<2>>}}

SpeedArguments == {-1, 0, 1, 2}

SpeedInit ==
    \E options \in SpeedOptions :
        /\ Constructed(constructor(options))
        /\ script = <<>>
        /\ calls = 0

SetAnySpeedMultiplier ==
    \E sp \in SpeedArguments :
        Call(setSpeedMultiplier(St, sp)) /\ UNCHANGED script

SpeedAdvanceTime == Elapse(MaxLongNow)

SpeedNext ==
    \/ Unpause
    \/ Pause
    \/ AddTime
    \/ SetAnySpeedMultiplier
    \/ SpeedAdvanceTime

SpeedSpec == SpeedInit /\ [][SpeedNext]_vars

(***************************************************************************)
(* The shims: runs of a SuperTimer constructed with options.shims.         *)
(***************************************************************************)
ShimOptions ==
    {[callbacks |-> <<Entry("checkpoint", <<"a">>, 2, "noop", FALSE, FALSE),
                      Entry("tick-reset", <<"p">>, 2, "noop", FALSE, FALSE),
                      Entry("tick-reset", <<"g">>, 0, "noop", TRUE, FALSE)>>,
      shims |-> given] :
        given \in {{}, {"setTimeout", "clearTimeout"}, ShimNames}}

ShimInit ==
    \E options \in ShimOptions :
        /\ Constructed(constructor(options))
        /\ script = <<>>
        /\ calls = 0

ShimAdvanceTime == Elapse(MaxNow)

ShimNext ==
    \/ Unpause
    \/ Pause
    \/ FireTimeout
    \/ FireInterval
    \/ FireFrame
    \/ ShimAdvanceTime

ShimSpec == ShimInit /\ [][ShimNext]_vars

(***************************************************************************)
(* The frames: runs of a SuperTimer, constructed at a positive reading of  *)
(* the host clock, whose callbacks pause and resume the timer from within  *)
(* their own action.                                                       *)
(***************************************************************************)
FrameScripts ==
    { \* an every-frame callback
      [callbacks |-> <<Entry("tick-reset", <<"g">>, 0, "noop", TRUE, FALSE)>>],
      \* an every-frame callback whose action pauses the timer
      [callbacks |-> <<Entry("tick-reset", <<"h">>, 0, "pause", TRUE, FALSE)>>],
      \* an every-frame callback whose action pauses and resumes the timer
      [callbacks |-> <<Entry("tick", <<"k">>, 0, "restart", TRUE, FALSE)>>],
      \* a checkpoint whose action pauses the timer
      [callbacks |-> <<Entry("checkpoint", <<"z">>, 2, "pause", FALSE, FALSE)>>] }

FrameInit ==
    \E options \in FrameScripts :
        /\ Constructed([constructor(options) EXCEPT !.now = 1])
        /\ script = <<>>
        /\ calls = 0

FrameAdvanceTime == Elapse(MaxNow)

FrameNext ==
    \/ Unpause
    \/ Pause
    \/ AddTime
    \/ SetTime
    \/ FireTimeout
    \/ FireFrame
    \/ FrameAdvanceTime

FrameSpec == FrameInit /\ [][FrameNext]_vars

(***************************************************************************)
(* The update callbacks: runs of a SuperTimer with one tick callback       *)
(* flagged executeOnUpdate, constructed at a positive reading of the host  *)
(* clock.                                                                  *)
(***************************************************************************)
UpdateScripts ==
    { \* drift compensation enabled
      [callbacks |-> <<Entry("tick", <<"t">>, 4, "noop", FALSE, TRUE)>>],
      \* drift compensation disabled
      [callbacks |-> <<[Entry("tick", <<"n">>, 4, "noop", FALSE, TRUE)
                            EXCEPT !.disableTickDriftCompensation = TRUE]>>] }

UpdateInit ==
    \E options \in UpdateScripts :
        /\ Constructed([constructor(options) EXCEPT !.now = 1])
        /\ script = <<>>
        /\ calls = 0

UpdateAdvanceTime == Elapse(MaxLongNow)

UpdateNext ==
    \/ Unpause
    \/ Pause
    \/ AddTime
    \/ SetTime
    \/ SetSpeedMultiplier
    \/ FireTimeout
    \/ FireInterval
    \/ UpdateAdvanceTime

UpdateSpec == UpdateInit /\ [][UpdateNext]_vars

(***************************************************************************)
(* Properties.  A property of an operation is a predicate of the state the *)
(* operation is called in: it speaks of the record the operation returns   *)
(* from St, for every input of the operation.                              *)
(***************************************************************************)
\* The fields of the instance in t.
Fields(t) ==
    <<t.callbacks, t.callbackIdSeeds, t.callbackNames, t.timeouts, t.intervals,
      t.rafs, t.unpausedAt, t.elapsedMs, t.speed, t.disposed>>

\* How often the operation that returned t invoked the action of callback id.
Invocations(t, id) == Cardinality({i \in DOMAIN t.invoked : t.invoked[i].id = id})

\* The invocations the operation made from the checkpoint walk of _addTime.
Crossings(t) == SelectSeq(t.invoked, LAMBDA x : x.via = "cross")

\* The results of addTime(ms) and setTime(ms), suppressCallbacks = false.
TimeCalls ==
    {addTime(St, ms, FALSE) : ms \in AddTimes}
        \cup {setTime(St, ms, FALSE) : ms \in SetTimes}

\* The call that returned t moved the elapsed time (as getElapsedMs reports
\* it) from below the target of c to the target or beyond.
Forward(c, t) == getElapsedMs(St) < c.timeMs /\ getElapsedMs(t) >= c.timeMs

\* Neither re-invoked on updates nor frame-synchronised.
Plain(c) == ~c.executeOnUpdate /\ ~c.requireAnimationFrame

\* Every entry the runs register.
Entries ==
    UNION {Range(o.callbacks) \cup UNION {Range(l) : l \in Range(o.later)} :
           o \in Scripts}

\* The handle map of a kind of host registration.
HandleMap(kind) ==
    IF kind = "timeout" THEN timeouts
    ELSE IF kind = "interval" THEN intervals
    ELSE rafs

\* The kinds of host registration under which name holds a live handle.
LiveKinds(name) ==
    {kind \in {"timeout", "interval", "raf"} :
        /\ MapHas(HandleMap(kind), name)
        /\ \E r \in host : r.kind = kind /\ r.h = MapGet(HandleMap(kind), name)}

TrackedNames ==
    {timeouts[i][1] : i \in DOMAIN timeouts}
        \cup {intervals[i][1] : i \in DOMAIN intervals}
        \cup {rafs[i][1] : i \in DOMAIN rafs}

\* C1: after pause() returns (the timer was running), no host registration
\* that was live before the call is still live, whatever the number of
\* registered callbacks.
C1_PauseCancelsEveryRegistration ==
    (~disposed /\ Truthy(unpausedAt)) => pause(St, FALSE).host \cap host = {}

\* C2: in every reachable state a callback name holds a live host
\* registration in at most one of the maps timeouts, intervals, rafs.
C2_OneLiveRegistrationPerName ==
    \A name \in TrackedNames : Cardinality(LiveKinds(name)) <= 1

\* The operation that returned t failed with Disposed and changed nothing.
Refused(t) == t.err = "Disposed" /\ Fields(t) = Fields(St) /\ t.history = <<>>

\* C3: on a disposed instance every public operation fails with Disposed and
\* changes no field and appends no event to the history.
C3_DisposedRefusesEveryOperation ==
    disposed =>
        /\ \A e \in Entries : Refused(registerCallbacks(St, <<e>>))
        /\ \A name \in RemoveNames : Refused(removeCallbacks(St, <<name>>))
        /\ Refused(removeAllCallbacks(St))
        /\ Refused(pause(St, FALSE))
        /\ Refused(unpause(St, FALSE))
        /\ Refused(start(St))
        /\ \A ms \in AddTimes, suppress \in BOOLEAN : Refused(addTime(St, ms, suppress))
        /\ \A ms \in SetTimes, suppress \in BOOLEAN : Refused(setTime(St, ms, suppress))
        /\ Refused(getState(St))
        /\ \A sp \in Speeds : Refused(setSpeedMultiplier(St, sp))

\* C4: once the instance is disposed, by a call of dispose() or from within
\* a callback's action, the host holds no registration of the instance.
C4_DisposedHoldsNoRegistration == disposed => host = {}

\* C5: in every reachable state no two records of the registry have the same
\* type and the same name.
C5_NameUniquePerType ==
    \A i, j \in DOMAIN callbacks :
        (callbacks[i].type = callbacks[j].type /\ callbacks[i].name = callbacks[j].name)
            => i = j

\* The operation that returned t failed with NameConflict and changed neither
\* the instance nor the host.
Conflict(t) == t.err = "NameConflict" /\ Fields(t) = Fields(St) /\ t.host = host

\* C6: registerCallbacks of an entry whose explicit name is the name of a
\* registered callback of the same type fails with NameConflict and leaves
\* registry, name sets, sequence counters and host registrations as they were.
C6_DuplicateNameRefused ==
    ~disposed =>
        \A e \in Entries :
            (/\ e.name # <<>>
             /\ \E i \in DOMAIN callbacks :
                    callbacks[i].type = e.type /\ callbacks[i].name = e.name[1])
                => Conflict(registerCallbacks(St, <<e>>))

C8_CrossedInAscendingOrder ==
    \A t \in TimeCalls :
        Ok(t) =>
            /\ \A i, j \in DOMAIN Crossings(t) :
                i < j => Crossings(t)[i].timeMs <= Crossings(t)[j].timeMs
            /\ \A i \in DOMAIN callbacks :
                (/\ callbacks[i].type = "checkpoint"
                 /\ ~callbacks[i].requireAnimationFrame
                 /\ Forward(callbacks[i], t))
                    => \E k \in DOMAIN Crossings(t) : Crossings(t)[k].id = callbacks[i].id

\* The timer is running and one call crosses the targets of two checkpoints
\* that were registered in descending order of their targets, and invokes
\* both.
C8_TwoCrossedRegisteredDescending ==
    \E t \in TimeCalls :
        /\ Truthy(unpausedAt)
        /\ Ok(t)
        /\ \E i, j \in DOMAIN callbacks :
            /\ i < j
            /\ callbacks[i].timeMs > callbacks[j].timeMs
            /\ \E k, l \in DOMAIN Crossings(t) :
                /\ k < l
                /\ Crossings(t)[k].id = callbacks[j].id
                /\ Crossings(t)[l].id = callbacks[i].id

\* The firing t of the timeout of a checkpoint-once callback cb removed the
\* callback: its record, its name, its handle.
OnceRemoved(t, cb) ==
    /\ \A i \in DOMAIN t.callbacks : t.callbacks[i].id # cb.id
    /\ cb.name \notin t.callbackNames["checkpoint-once"]
    /\ ~MapHas(t.timeouts, cb.name)

\* C9: when the timeout of a checkpoint-once callback fires, the callback has
\* not fired before, and the firing removes its record, its name and its
\* handle.
C9_OnceRemovedOnFirstFiring ==
    ~disposed =>
        \A r \in host :
            (r.kind = "timeout" /\ Due(r) /\ r.cb.type = "checkpoint-once")
                => /\ r.cb.id \notin firedOnce
                   /\ OnceRemoved(fireTimeout(St, r), r.cb)

\* C10: an addTime/setTime call (suppressCallbacks = false) that returns
\* invokes the action of a checkpoint-once callback that has not fired yet on
\* the occasions on which it would invoke a checkpoint of the same target:
\* once when it moves the elapsed time forward onto or across the target, and
\* not at all otherwise.
C10_OnceFiresLikeCheckpoint ==
    \A t \in TimeCalls :
        Ok(t) =>
            \A i \in DOMAIN callbacks :
                (/\ callbacks[i].type = "checkpoint-once"
                 /\ Plain(callbacks[i])
                 /\ callbacks[i].id \notin firedOnce)
                    => Invocations(t, callbacks[i].id)
                           = IF Forward(callbacks[i], t) THEN 1 ELSE 0

\* The callbacks removeAllCallbacks is to remove: those whose name does not
\* start with '!'.
Unprotected == {callbacks[i].id : i \in {j \in DOMAIN callbacks :
                                            ~StartsWithBang(callbacks[j].name)}}

Protected == {callbacks[i].id : i \in DOMAIN callbacks} \ Unprotected

\* In t the unprotected callbacks are removed, the protected ones are kept,
\* and the host holds no registration that would invoke a removed one.
AllRemoved(t) ==
    /\ Ok(t)
    /\ {t.callbacks[i].id : i \in DOMAIN t.callbacks} = Protected
    /\ \A r \in t.host : r.cb.id \notin Unprotected

\* C11: removeAllCallbacks() removes every callback whose name does not start
\* with '!' and keeps the others, and leaves no host registration that would
\* invoke a removed callback; the same holds when the action of an
\* every-frame callback calls removeAllCallbacks() from its frame.
C11_RemoveAllLeavesNoFiring ==
    ~disposed =>
        /\ AllRemoved(removeAllCallbacks(St))
        /\ \A r \in host :
            (r.kind = "raf" /\ r.cb.callback = <<"removeAll">> /\ Truthy(unpausedAt))
                => AllRemoved(fireFrame(St, r))

(***************************************************************************)
(* Properties of the countdown.                                            *)
(***************************************************************************)
\* The results of SuperCountdown's addTime(ms) and setTimeRemaining(ms) with
\* the given suppressCallbacks.
CountdownCalls(suppress) ==
    {countdownAddTime(St, ms, suppress) : ms \in CountdownAddTimes}
        \cup {setTimeRemaining(St, ms, suppress) : ms \in TimesRemaining}

\* The timeout of the countdown's internal checkpoint is due.
CompletionDue(r) ==
    r.kind = "timeout" /\ Due(r) /\ r.cb.name = "!countdown-complete-internal"

\* The call that returned t took the countdown from not done to done.
CrossedTotal(t) == Ok(t) /\ ~isDone(St) /\ isDone(t)

\* The invocations of completion callbacks the operation that returned t made.
CompleteInvocations(t) == SelectSeq(t.invoked, LAMBDA x : x.type = "complete")

\* The operation that returned t invoked every registered completion
\* callback exactly once, each with the countdown paused, and left the
\* countdown paused.
Completed(t) ==
    /\ Ok(t)
    /\ \A i \in DOMAIN completeCallbacks : Invocations(t, completeCallbacks[i].id) = 1
    /\ \A k \in DOMAIN CompleteInvocations(t) : CompleteInvocations(t)[k].paused
    /\ ~Truthy(t.unpausedAt)

\* C12: when the timeout of the internal completion checkpoint fires, and
\* when an addTime/setTimeRemaining call (suppressCallbacks = false) takes the
\* countdown from not done to done, every registered completion callback is
\* invoked exactly once, with the countdown already paused, and the countdown
\* is paused when the firing or the call ends; a call that does not take the
\* countdown from not done to done invokes no completion callback.
C12_CompletionInvokesEveryCallbackOnce ==
    (completeTime # {} /\ ~disposed) =>
        /\ \A r \in host : CompletionDue(r) => Completed(fireTimeout(St, r))
        /\ \A t \in CountdownCalls(FALSE) :
            /\ CrossedTotal(t) => Completed(t)
            /\ (Ok(t) /\ ~CrossedTotal(t)) => CompleteInvocations(t) = <<>>

\* The running countdown reaches its total time with a completion callback
\* registered: the timeout of the internal checkpoint is due.
C12_CompletionByRunningTime ==
    /\ completeTime # {} /\ ~disposed
    /\ completeCallbacks # <<>>
    /\ \E r \in host : CompletionDue(r) /\ Completed(fireTimeout(St, r))

\* The operation that returned t did nothing.
NoOp(t) ==
    /\ Ok(t)
    /\ Fields(t) = Fields(St)
    /\ t.history = <<>>
    /\ t.host = host

\* The call that returned t left the countdown paused, without an unpause
\* event and without a new host registration.
NotResumed(t) ==
    /\ ~Truthy(t.unpausedAt)
    /\ \A k \in DOMAIN t.history : t.history[k].event # "unpause"
    /\ t.host \subseteq host

\* C13: on a countdown whose isDone() is true, unpause() and start() change
\* nothing, append no event and issue no host registration; an
\* addTime/setTimeRemaining call made while the countdown runs that ends with
\* isDone() true leaves the countdown paused, without an unpause event and
\* without a new host registration.
C13_DoneCountdownIsNotResumed ==
    (completeTime # {} /\ ~disposed) =>
        /\ isDone(St) => (NoOp(unpause(St, FALSE)) /\ NoOp(start(St)))
        /\ Truthy(unpausedAt) =>
                \A suppress \in BOOLEAN : \A t \in CountdownCalls(suppress) :
                    (Ok(t) /\ isDone(t)) => NotResumed(t)

\* The countdown runs and a call takes it from not done to done.
C13_RunningCountdownCrossesTotal ==
    /\ completeTime # {} /\ ~disposed
    /\ Truthy(unpausedAt)
    /\ \E t \in CountdownCalls(FALSE) : CrossedTotal(t) /\ NotResumed(t)

\* t is done with no time remaining.
DoneAtZero(t) == Ok(t) /\ isDone(t) /\ getTimeRemaining(t) = 0

\* unpause() of u resumed the countdown: the clock runs and the internal
\* checkpoint is scheduled for the moment the time remaining reaches 0.
Resumed(u, v) ==
    /\ Ok(v)
    /\ Truthy(v.unpausedAt)
    /\ \E q \in v.host :
        /\ q.kind = "timeout" /\ q.cb.name = "!countdown-complete-internal"
        /\ q.due = v.now + getTimeRemaining(u) \div v.speed

\* setTimeRemaining(r) gives t with r remaining, not done, and unpause()
\* resumes it.
Restarted(t, r) ==
    /\ Ok(t)
    /\ ~isDone(t)
    /\ getTimeRemaining(t) = r
    /\ Resumed(t, unpause(t, FALSE))

\* C14: a completion (the firing of the internal checkpoint's timeout, or a
\* call that takes the countdown from not done to done, also beyond the total)
\* leaves isDone() true and getTimeRemaining() = 0; on a completed countdown
\* setTimeRemaining(r), r > 0, gives isDone() false and getTimeRemaining() = r,
\* and a following unpause() resumes the countdown with the completion
\* scheduled for the moment the time remaining reaches 0.
C14_CompletedAtZeroAndRestartable ==
    (completeTime # {} /\ ~disposed) =>
        /\ \A r \in host : CompletionDue(r) => DoneAtZero(fireTimeout(St, r))
        /\ \A t \in CountdownCalls(FALSE) : CrossedTotal(t) => DoneAtZero(t)
        /\ (~Truthy(unpausedAt) /\ isDone(St) /\ getTimeRemaining(St) = 0) =>
                \A r \in TimesRemaining \ {0} :
                    Restarted(setTimeRemaining(St, r, FALSE), r)

\* C15: a completion callback registered with once = true that is still
\* registered has never been invoked; every completion invokes each
\* registered completion callback once, removes those registered with
\* once = true and keeps those registered with once = false.
C15_OnceCompletionCallbackFiresOnce ==
    (completeTime # {} /\ ~disposed) =>
        /\ \A i \in DOMAIN completeCallbacks :
                completeCallbacks[i].once => completeCallbacks[i].id \notin firedComplete
        /\ \A t \in {fireTimeout(St, r) : r \in {q \in host : CompletionDue(q)}}
                    \cup {c \in CountdownCalls(FALSE) : CrossedTotal(c)} :
                /\ Ok(t)
                /\ \A i \in DOMAIN completeCallbacks :
                    /\ Invocations(t, completeCallbacks[i].id) = 1
                    /\ completeCallbacks[i].once
                           <=> completeCallbacks[i] \notin Range(t.completeCallbacks)

\* A completion callback registered with once = true has been invoked and
\* removed, one registered with once = false has been invoked and is still
\* registered, and a call completes the countdown again.
C15_SecondCompletion ==
    /\ completeTime # {} /\ ~disposed
    /\ \E id \in firedComplete : \A i \in DOMAIN completeCallbacks : completeCallbacks[i].id # id
    /\ \E i \in DOMAIN completeCallbacks : completeCallbacks[i].id \in firedComplete
    /\ \E t \in CountdownCalls(FALSE) :
        /\ CrossedTotal(t)
        /\ \A i \in DOMAIN completeCallbacks : Invocations(t, completeCallbacks[i].id) = 1

\* The operation that returned t invoked the countdown's completion action.
CompletionRan(t) ==
    \E k \in DOMAIN t.invoked : t.invoked[k].name = "!countdown-complete-internal"

Registered(type) == {callbacks[i] : i \in {j \in DOMAIN callbacks : callbacks[j].type = type}}

\* The registered callback a host registration belongs to.
Owner(r) == callbacks[CHOOSE i \in DOMAIN callbacks : callbacks[i].id = r.cb.id]

\* Elapsed time e is a point of the original schedule of tick callback c.
OnSchedule(c, e) == (e - c.registeredAt) % c.timeMs = 0

\* The elapsed time getElapsedMs() reports in t at host time due, the clock
\* of t running.
ElapsedAt(t, due) == Round(t.elapsedMs + (due - Val(t.unpausedAt)) * t.speed)

\* The host registrations of callback c in t.
RegistrationsOf(t, c) == {q \in t.host : q.cb.id = c.id}

\* In t, the clock runs and the next firing of callback c is that of a
\* timeout or interval at elapsed time e.
NextFiringAt(t, c, e) ==
    /\ Ok(t)
    /\ Truthy(t.unpausedAt)
    /\ \E q \in RegistrationsOf(t, c) : ElapsedAt(t, q.due) = e
    /\ \A q \in RegistrationsOf(t, c) : ElapsedAt(t, q.due) >= e

\* Callback c last fired at L and the paused clock stands strictly between L
\* and L + timeMs.
PausedWithinInterval(c) ==
    /\ ~disposed /\ ~Truthy(unpausedAt)
    /\ c.lastExecutionMs > c.registeredAt
    /\ c.lastExecutionMs < getElapsedMs(St)
    /\ getElapsedMs(St) < c.lastExecutionMs + c.timeMs

\* C17: on a clock that is only paused and unpaused, every firing of a
\* timeout or interval of a tick callback with drift compensation happens at
\* an elapsed time registeredAt + k * timeMs; and when the clock is paused
\* within the interval after a firing and unpaused at once, the next firing
\* is at the next point of the schedule.
C17_TickFiresOnSchedule ==
    /\ \A r \in host :
        (Due(r) /\ r.cb.type = "tick" /\ ~r.cb.disableTickDriftCompensation)
            => OnSchedule(Owner(r), getElapsedMs(St))
    /\ \A c \in Registered("tick") :
        (~c.disableTickDriftCompensation /\ PausedWithinInterval(c))
            => NextFiringAt(unpause(St, FALSE), c, c.lastExecutionMs + c.timeMs)

\* C18, as claimed: a tick callback without drift compensation that has
\* fired, the clock paused within the interval after the firing at elapsed
\* time e: after unpause() the next firing is at e + timeMs.
C18_NoDriftTickWaitsFullInterval ==
    \A c \in Registered("tick") :
        (c.disableTickDriftCompensation /\ PausedWithinInterval(c))
            => NextFiringAt(unpause(St, FALSE), c, getElapsedMs(St) + c.timeMs)

\* C18, amended: after unpause() the next firing is at lastExecutionMs +
\* timeMs, the elapsed time at which it would have fired without the pause.
C18_NoDriftTickFiresAfterLastPlusInterval ==
    \A c \in Registered("tick") :
        (c.disableTickDriftCompensation /\ PausedWithinInterval(c))
            => NextFiringAt(unpause(St, FALSE), c, c.lastExecutionMs + c.timeMs)

\* A tick callback without drift compensation, interval 2 ms, registered at
\* 0, has fired at 2 ms and the clock is paused at 3 ms.
C18_PausedAfterFirstFiring ==
    \E c \in Registered("tick") :
        /\ c.disableTickDriftCompensation /\ PausedWithinInterval(c)
        /\ c.registeredAt = 0 /\ c.lastExecutionMs = c.timeMs
        /\ NextFiringAt(unpause(St, FALSE), c, 2 * c.timeMs)

\* C19: unpause() of a clock paused at elapsed time e makes the next firing
\* of every tick-reset callback with interval timeMs > 0 happen at
\* e + timeMs, whatever part of the interval had passed before the pause.
C19_TickResetWaitsFullInterval ==
    (~disposed /\ ~Truthy(unpausedAt)) =>
        \A c \in Registered("tick-reset") :
            c.timeMs > 0
                => NextFiringAt(unpause(St, FALSE), c, getElapsedMs(St) + c.timeMs)

\* The registrations of callback c that t holds in its maps.
TrackedOf(t, c) ==
    {q \in RegistrationsOf(t, c) :
        \/ q.kind = "timeout" /\ MapHas(t.timeouts, c.name)
                              /\ MapGet(t.timeouts, c.name) = q.h
        \/ q.kind = "interval" /\ MapHas(t.intervals, c.name)
                               /\ MapGet(t.intervals, c.name) = q.h}

\* C20: while the clock runs, whatever resumed it (unpause(), the resume at
\* the end of addTime/setTime, setSpeedMultiplier), the registration the
\* engine holds for a tick callback with drift compensation is due at an
\* elapsed time registeredAt + k * timeMs.
C20_ResumeLocksTickOntoSchedule ==
    (~disposed /\ Truthy(unpausedAt)) =>
        \A c \in Registered("tick") :
            ~c.disableTickDriftCompensation
                => \A q \in TrackedOf(St, c) : OnSchedule(c, ElapsedAt(St, q.due))

(***************************************************************************)
(* Properties of the clock.                                                *)
(***************************************************************************)
\* C21: on a running clock, pause() followed at once by unpause(), no host
\* time passing between them, returns with getElapsedMs() as it was before the
\* pause, at every speed.
C21_PauseUnpauseKeepsElapsed ==
    (~disposed /\ Truthy(unpausedAt)) =>
        /\ Ok(unpause(pause(St, FALSE), FALSE))
        /\ getElapsedMs(unpause(pause(St, FALSE), FALSE)) = getElapsedMs(St)

\* The clock runs at speed 2 since a host time at which the accumulated
\* elapsed time was not a whole number of milliseconds, and pause() then
\* unpause() keep the elapsed time.
C21_RunningAtDoubleSpeed ==
    /\ ~disposed /\ Truthy(unpausedAt)
    /\ speed = 2 /\ elapsedMs % 2 = 1 /\ now > Val(unpausedAt)
    /\ Truthy(unpause(pause(St, FALSE), FALSE).unpausedAt)
    /\ getElapsedMs(unpause(pause(St, FALSE), FALSE)) = getElapsedMs(St)

\* C22: when host time passes (the operations leave the host clock alone),
\* getElapsedMs() of a running clock becomes the accumulated elapsed time plus
\* (now - unpausedAt) * speed, rounded to the millisecond as getElapsedMs()
\* reports it, and is not smaller than it was; getElapsedMs() of a paused
\* clock stays as it was.
C22_ElapsedFollowsHostTime ==
    [][(now' > now /\ ~disposed) =>
            IF Truthy(unpausedAt)
            THEN /\ getElapsedMs(St)' = Round(elapsedMs + (now' - Val(unpausedAt)) * speed)
                 /\ getElapsedMs(St)' >= getElapsedMs(St)
            ELSE getElapsedMs(St)' = getElapsedMs(St)]_vars

\* The instance in t is paused, as getState() reports it (isPaused).
isPaused(t) == ~Truthy(t.unpausedAt)

\* C23: a new instance is paused with elapsed time 0 (a countdown: with its
\* total time remaining) and the host holds no registration, also when
\* callbacks were passed to the constructor; unpause() that returns normally
\* (on a countdown: one that is not done) leaves the instance running, and
\* pause() leaves it paused, whatever the host clock reads, 0 included.
C23_NewIsPausedUnpauseRuns ==
    /\ (calls = 0 /\ now = 0) =>
            /\ isPaused(St) /\ getElapsedMs(St) = 0 /\ host = {}
            /\ completeTime # {} => getTimeRemaining(St) = Val(completeTime)
    /\ ~disposed =>
            /\ (Ok(unpause(St, FALSE)) /\ (completeTime # {} => ~isDone(St)))
                    => ~isPaused(unpause(St, FALSE))
            /\ Ok(pause(St, FALSE)) => isPaused(pause(St, FALSE))

\* C26: in every reachable state the speed is greater than 0, whatever number
\* was given to the constructor or to setSpeedMultiplier.
C26_SpeedIsPositive == speed > 0

\* The operation that returned t did nothing: no field changed, no event was
\* appended, no action was invoked, no host registration was cancelled or
\* issued.
Untouched(t) ==
    /\ NoOp(t)
    /\ t.invoked = <<>>
    /\ t.retired = {}

\* C24: pause() on a paused clock and unpause() (or start()) on a running
\* clock do nothing: no field changes, no event is appended, no action is
\* invoked, no host registration is cancelled or issued; pause() returns true
\* when the clock was running and false when it was paused.
C24_RepeatedPauseUnpauseAreNoOps ==
    ~disposed =>
        /\ isPaused(St) =>
                \A suppress \in BOOLEAN :
                    Untouched(pause(St, suppress)) /\ ~pause(St, suppress).ret
        /\ ~isPaused(St) =>
                /\ \A suppress \in BOOLEAN : Untouched(unpause(St, suppress))
                /\ Untouched(start(St))
        /\ \A suppress \in BOOLEAN :
                Ok(pause(St, suppress)) => (pause(St, suppress).ret <=> ~isPaused(St))

\* The clock runs with host registrations live and a callback to invoke on
\* updates registered: unpause() does nothing and pause() returns true.
C24_RunningWithRegistrations ==
    /\ ~disposed /\ ~isPaused(St)
    /\ host # {}
    /\ \E i \in DOMAIN callbacks : callbacks[i].executeOnUpdate
    /\ Untouched(unpause(St, FALSE))
    /\ pause(St, FALSE).ret
    /\ pause(St, FALSE).invoked # <<>>

\* The pause, setSpeed and unpause events the operation that returned t
\* appended, in order.
ClockEvents(t) ==
    LET sel == SelectSeq(t.history,
                         LAMBDA x : x.event \in {"pause", "setSpeed", "unpause"})
    IN [k \in DOMAIN sel |-> sel[k].event]

\* Registration q of t is the one a clock at elapsed time e and speed sp
\* issues: a timeout (target - e) / sp from now, an interval of timeMs / sp.
AtSpeed(t, q, sp, e) ==
    CASE q.kind = "timeout" -> q.due = t.now + (q.cb.timeMs - e) \div sp
      [] q.kind = "interval" -> q.period = q.cb.timeMs \div sp
      [] OTHER -> TRUE

\* Callback c has something to wait for at elapsed time e.
Pending(c, e) == c.type \in {"tick", "tick-reset"} \/ c.timeMs > e

\* setSpeedMultiplier(sp) returned t: the elapsed time is as before, the clock
\* runs at sp, the events are pause, setSpeed, unpause, and every registration
\* that was live is cancelled and re-issued at sp.
Rescheduled(t, sp) ==
    /\ Ok(t)
    /\ getElapsedMs(t) = getElapsedMs(St)
    /\ ~isPaused(t)
    /\ t.speed = sp
    /\ ClockEvents(t) = <<"pause", "setSpeed", "unpause">>
    /\ t.host \cap host = {}
    /\ \A q \in t.host : AtSpeed(t, q, sp, getElapsedMs(St))
    /\ \A k \in DOMAIN callbacks :
            Pending(callbacks[k], getElapsedMs(St)) => RegistrationsOf(t, callbacks[k]) # {}

\* setSpeedMultiplier(sp) on a paused clock returned t: the speed is set, a
\* setSpeed event is appended, and nothing else happened.
SpeedSet(t, sp) ==
    /\ Ok(t)
    /\ t.speed = sp
    /\ isPaused(t) /\ t.elapsedMs = elapsedMs
    /\ ClockEvents(t) = <<"setSpeed">> /\ Len(t.history) = 1
    /\ t.invoked = <<>>
    /\ t.host = host /\ t.retired = {}

\* C25: setSpeedMultiplier(sp) with sp different from the speed, on a running
\* clock, keeps getElapsedMs(), leaves the clock running at sp, appends pause,
\* setSpeed, unpause in this order, cancels every live registration and
\* issues each pending one anew with the delay (target - elapsed) / sp or the
\* period timeMs / sp; on a paused clock it sets the speed and appends a
\* setSpeed event only; with sp equal to the speed it does nothing.
C25_SpeedChangeReschedules ==
    ~disposed =>
        \A sp \in Speeds :
            IF sp = speed THEN Untouched(setSpeedMultiplier(St, sp))
            ELSE IF isPaused(St) THEN SpeedSet(setSpeedMultiplier(St, sp), sp)
            ELSE Rescheduled(setSpeedMultiplier(St, sp), sp)

(***************************************************************************)
(* Properties of addTime and setTime.                                      *)
(***************************************************************************)
\* The results of addTime(ms) and setTime(ms), with and without
\* suppressCallbacks.
AllTimeCalls ==
    {addTime(St, ms, suppress) : ms \in AddTimes, suppress \in BOOLEAN}
        \cup {setTime(St, ms, suppress) : ms \in SetTimes, suppress \in BOOLEAN}

\* In t callback c has a live host registration that the engine tracks
\* under the callback's name.
LiveIn(t, c) ==
    \/ TrackedOf(t, c) # {}
    \/ \E q \in RegistrationsOf(t, c) :
            q.kind = "raf" /\ MapHas(t.rafs, c.name) /\ MapGet(t.rafs, c.name) = q.h

\* The periodic callbacks registered in t.
Periodic(t) == {c \in Range(t.callbacks) : c.type \in {"tick", "tick-reset"}}

\* C27: an addTime/setTime call that returns, no action having disposed the
\* timer, leaves a running clock running, every tick and tick-reset callback
\* with a live registration, and leaves a paused clock paused.
C27_TimeJumpKeepsRunState ==
    ~disposed =>
        \A t \in AllTimeCalls :
            (Ok(t) /\ ~t.disposed) =>
                /\ isPaused(t) <=> isPaused(St)
                /\ ~isPaused(St) => \A c \in Periodic(t) : LiveIn(t, c)

\* The clock runs with a tick and a tick-reset callback registered, the tick
\* has fired, and addTime(1 ms) leaves the clock running and both live.
C27_RunningPeriodicJump ==
    /\ ~disposed /\ ~isPaused(St)
    /\ \E c \in Registered("tick") : c.lastExecutionMs > 0
    /\ Registered("tick-reset") # {}
    /\ Ok(addTime(St, 2, FALSE))
    /\ ~isPaused(addTime(St, 2, FALSE))
    /\ \A c \in Periodic(addTime(St, 2, FALSE)) : LiveIn(addTime(St, 2, FALSE), c)

\* The interval registrations of tick-reset callbacks that are live and
\* tracked in t.
TrackedIntervals(t) ==
    {q \in t.host : q.kind = "interval" /\ q.cb.type = "tick-reset"
                                        /\ q \in TrackedOf(t, q.cb)}

\* C28: an addTime/setTime call that returns leaves every interval
\* registration of a tick-reset callback that was live before the call live
\* and tracked, the same registration with the same next firing time.
C28_TimeJumpKeepsIntervals ==
    ~disposed =>
        \A t \in AllTimeCalls :
            (Ok(t) /\ ~t.disposed) => TrackedIntervals(St) \subseteq TrackedIntervals(t)

\* The results of addTime(ms) and setTime(ms) with suppressCallbacks = true.
SuppressedTimeCalls ==
    {addTime(St, ms, TRUE) : ms \in AddTimes}
        \cup {setTime(St, ms, TRUE) : ms \in SetTimes}

\* The operation that returned t invoked the action of every registered
\* callback flagged executeOnUpdate.
UpdatesInvoked(t) ==
    \A i \in DOMAIN callbacks :
        callbacks[i].executeOnUpdate => Invocations(t, callbacks[i].id) >= 1

NewCallback(t) == t.callbacks[Len(t.callbacks)]

\* In t callback c is scheduled as a running clock schedules it: a
\* checkpoint with its target ahead has one timeout, (target - elapsed) /
\* speed from now, and no other registration; a checkpoint with its target
\* reached has none; a periodic callback has a registration.
Scheduled(t, c) ==
    IF c.type \in {"checkpoint", "checkpoint-once"}
    THEN IF c.timeMs > getElapsedMs(t)
         THEN \E q \in RegistrationsOf(t, c) :
                /\ q.kind = "timeout"
                /\ q.due = t.now + (c.timeMs - getElapsedMs(t)) \div t.speed
                /\ RegistrationsOf(t, c) = {q}
         ELSE RegistrationsOf(t, c) = {}
    ELSE RegistrationsOf(t, c) # {}

\* unpause() of a paused clock returned u: callback c is scheduled, and its
\* action not invoked unless it is flagged executeOnUpdate.
ScheduledByUnpause(u, c) ==
    Ok(u) => (Scheduled(u, c) /\ (~c.executeOnUpdate => Invocations(u, c.id) = 0))

\* registerCallbacks of one entry returned t.
RegisteredLazily(t) ==
    /\ t.invoked = <<>>
    /\ IF isPaused(St)
       THEN t.host = host /\ ScheduledByUnpause(unpause(t, FALSE), NewCallback(t))
       ELSE host \subseteq t.host /\ Scheduled(t, NewCallback(t))

\* C30: registerCallbacks on a paused clock issues no host registration, and
\* the next unpause() schedules the new callback; on a running clock the new
\* callback is scheduled at once; a checkpoint with its target ahead gets one
\* timeout of (target - elapsed) / speed, one with its target reached gets
\* none, and its action is not invoked.
C30_RegistrationIsScheduledWhenRunning ==
    ~disposed =>
        \A e \in Entries :
            Ok(registerCallbacks(St, <<e>>)) => RegisteredLazily(registerCallbacks(St, <<e>>))

(***************************************************************************)
(* Properties of removeCallbacks.                                          *)
(***************************************************************************)
\* The callbacks registered under name n.
Named(n) == {c \in Range(callbacks) : c.name = n}

\* No two registered callbacks share a name.
NamesUnique == \A i, j \in DOMAIN callbacks : callbacks[i].name = callbacks[j].name => i = j

\* Every live host registration is one the engine tracks under the name of
\* its callback.
AllTracked ==
    \A q \in host :
        \/ q \in TrackedOf(St, q.cb)
        \/ q.kind = "raf" /\ MapHas(rafs, q.cb.name) /\ MapGet(rafs, q.cb.name) = q.h

\* removeCallbacks([n]) returned t: no record of name n is left, the name is
\* free in every kind, no live host registration would invoke a callback that
\* was registered under n, and a callback of any kind can be registered
\* under n again.
Removed(t, n) ==
    /\ Ok(t)
    /\ \A k \in DOMAIN t.callbacks : t.callbacks[k].name # n
    /\ \A type \in Types : n \notin t.callbackNames[type]
    /\ \A q \in t.host : q.cb.id \notin {c.id : c \in Named(n)}
    /\ \A e \in Entries : e.name = <<n>> => Ok(registerCallbacks(t, <<e>>))

\* C31: removeCallbacks([n]) of a registered name n removes the callback
\* record, frees the name so that a callback of the same kind and name can be
\* registered again, and leaves no live host registration that would invoke
\* the removed callback.
C31_RemoveCancelsAndFreesName ==
    ~disposed =>
        \A n \in {c.name : c \in Range(callbacks)} :
            Removed(removeCallbacks(St, <<n>>), n)

(***************************************************************************)
(* Properties of the options.                                              *)
(***************************************************************************)
\* The primitive that issues a host registration of a kind.
Primitive(kind) ==
    CASE kind = "timeout" -> "setTimeout"
      [] kind = "interval" -> "setInterval"
      [] kind = "raf" -> "requestAnimationFrame"

\* C32: every host registration of the instance was issued through the
\* function given in options.shims when one was given for its primitive, and
\* through the host default otherwise.
C32_InjectedShimsAreUsed ==
    \A r \in host : r.injected <=> Primitive(r.kind) \in shims

(***************************************************************************)
(* Properties of the executions.                                           *)
(***************************************************************************)
\* The firing of the due timeout or interval r.
fire(s, r) == IF r.kind = "timeout" THEN fireTimeout(s, r) ELSE fireInterval(s, r)

\* The checkpoint and tick events the operation that returned t appended to
\* the history.
ExecutionEvents(t) ==
    SelectSeq(t.history, LAMBDA x : x.event \in {"checkpoint", "tick"})

\* C33: the execution of a callback registered with logExecutions = false, by
\* the firing of its timeout or interval, appends no checkpoint or tick event
\* to the history.
C33_UnloggedExecutionAppendsNoEvent ==
    ~disposed =>
        \A r \in host :
            (Due(r) /\ ~r.cb.logExecutions /\ Ok(fire(St, r)))
                => \A k \in DOMAIN ExecutionEvents(fire(St, r)) :
                        ExecutionEvents(fire(St, r))[k].data # r.cb.name

\* C34: while the clock is paused, no firing of a host timeout or interval
\* invokes the action of a callback.
C34_NoInvocationWhilePaused ==
    (~disposed /\ isPaused(St)) =>
        \A r \in host : Due(r) => fire(St, r).invoked = <<>>

\* The frame loops of callback c: the frames requested to run its loop.
Loops(t, c) == {r \in t.host : r.kind = "raf" /\ r.run = "rafLoop" /\ r.cb.id = c.id}

EveryFrame(c) ==
    c.type \in {"tick", "tick-reset"} /\ c.timeMs = 0 /\ c.requireAnimationFrame

\* C35: an every-frame callback has exactly one frame requested for its loop
\* while the clock runs and none while it is paused, and a frame invokes its
\* action once on a running clock and not at all on a paused one.
C35_OneFrameLoopPerCallback ==
    ~disposed =>
        /\ \A i \in DOMAIN callbacks :
              EveryFrame(callbacks[i]) =>
                  Cardinality(Loops(St, callbacks[i])) = IF isPaused(St) THEN 0 ELSE 1
        /\ \A r \in host :
              r.kind = "raf" /\ r.run = "rafLoop" =>
                  Len(fireFrame(St, r).invoked) = IF isPaused(St) THEN 0 ELSE 1

\* The number of times the operation that returned t invoked the callback
\* with identity id as an update callback.
UpdateCount(t, id) ==
    Cardinality({i \in DOMAIN t.invoked : t.invoked[i].id = id /\ t.invoked[i].via = "update"})

UpdatedOnce(t) ==
    \A i \in DOMAIN callbacks :
        callbacks[i].executeOnUpdate => UpdateCount(t, callbacks[i].id) = 1

\* The results of the calls that change the state of the clock: pause() on a
\* running clock, unpause() on a paused one, addTime, setTime, and
\* setSpeedMultiplier with a new speed.
StateChangingCalls ==
    (IF isPaused(St) THEN {unpause(St, FALSE)} ELSE {pause(St, FALSE)})
        \cup AllTimeCalls
        \cup {setSpeedMultiplier(St, sp) : sp \in Speeds \ {speed}}

\* C37: a call of pause, unpause, addTime, setTime or setSpeedMultiplier that
\* changes the state of the clock invokes every callback flagged
\* executeOnUpdate exactly once as an update callback, on a running and on a
\* paused clock.
C37_UpdateCallbacksRunOnce ==
    ~disposed => \A t \in StateChangingCalls : Ok(t) => UpdatedOnce(t)

\* The operation that returned t invoked, for a reached or crossed target,
\* a checkpoint whose action calls pause().
PausingCheckpointFired(t) ==
    \E i \in DOMAIN t.invoked, j \in DOMAIN callbacks :
        /\ t.invoked[i].id = callbacks[j].id
        /\ t.invoked[i].via \in {"timer", "cross"}
        /\ callbacks[j].type = "checkpoint"
        /\ callbacks[j].callback = <<"pause">>

\* The results of addTime(ms) and setTime(ms) with suppressCallbacks = false.
CrossingTimeCalls ==
    {addTime(St, ms, FALSE) : ms \in AddTimes}
        \cup {setTime(St, ms, FALSE) : ms \in SetTimes}

\* C38: when a checkpoint whose action calls pause() has fired, from its
\* timeout or because an addTime/setTime call on the running clock crossed
\* its target, the clock is paused when the firing or the call returns.
C38_PausingCheckpointPauses ==
    (~disposed /\ ~isPaused(St)) =>
        /\ \A r \in host :
              (r.kind = "timeout" /\ Due(r) /\ PausingCheckpointFired(fireTimeout(St, r)))
                  => isPaused(fireTimeout(St, r))
        /\ \A t \in CrossingTimeCalls :
              (Ok(t) /\ PausingCheckpointFired(t)) => isPaused(t)

\* The operation that returned t invoked every registered completion callback.
CompletionInvoked(t) ==
    \A i \in DOMAIN completeCallbacks : Invocations(t, completeCallbacks[i].id) >= 1

\* C39: every addTime/setTimeRemaining call that takes the countdown from
\* not done to done, with suppressCallbacks true or false, invokes every
\* registered completion callback, and the time remaining of a paused
\* countdown is never negative.
C39_DoneMeansCompleted ==
    (completeTime # {} /\ ~disposed) =>
        /\ \A t \in CountdownCalls(TRUE) \cup CountdownCalls(FALSE) :
              CrossedTotal(t) => CompletionInvoked(t)
        /\ isPaused(St) => getTimeRemaining(St) >= 0

\* Lists whose second entry has the name of the first: registerCallbacks
\* fails at the second entry, or at the first if its name is taken.
ConflictLists ==
    { <<Entry("checkpoint", <<"n">>, 4, "noop", FALSE, FALSE),
        Entry("checkpoint", <<"n">>, 4, "noop", FALSE, FALSE)>>,
      <<Entry("tick-reset", <<"m">>, 2, "noop", FALSE, FALSE),
        Entry("tick-reset", <<"m">>, 2, "noop", FALSE, FALSE)>> }

\* registerCallbacks returned t with a name conflict: the entries it added
\* to the registry have their names reserved and are scheduled.
AddedAreScheduled(t) ==
    t.err = "NameConflict" =>
        \A i \in (Len(callbacks) + 1)..Len(t.callbacks) :
            /\ t.callbacks[i].name \in t.callbackNames[t.callbacks[i].type]
            /\ Scheduled(t, t.callbacks[i])

\* C40: when registerCallbacks fails with a name conflict on a running
\* clock, every entry before the failing one is in the registry, has its
\* name reserved, and has its host registration.
C40_FailedRegistrationSchedulesEarlierEntries ==
    (~disposed /\ ~isPaused(St)) =>
        \A list \in ConflictLists : AddedAreScheduled(registerCallbacks(St, list))

\* The state of the timer whose callbacks are the same but for
\* executeOnUpdate = false: no update invocation has written lastExecutionMs.
Twin(t) ==
    [t EXCEPT !.callbacks = [i \in DOMAIN @ |->
        [@[i] EXCEPT !.executeOnUpdate = FALSE,
                     !.lastExecutionMs = t.callbacks[i].lastFiredMs]]]

\* The elapsed values at which the timeouts and intervals of t fire next.
NextFirings(t) ==
    {ElapsedAt(t, q.due) : q \in {r \in t.host : r.kind \in {"timeout", "interval"}}}

SameSchedule(t, u) ==
    (Ok(t) /\ Ok(u) /\ Truthy(t.unpausedAt)) => NextFirings(t) = NextFirings(u)

\* C36: unpause() of a paused clock, and addTime, setTime and a change of
\* speed on a running clock, schedule a tick flagged executeOnUpdate for the
\* elapsed value for which they schedule the same tick not flagged.
C36_UpdateInvocationKeepsSchedule ==
    ~disposed =>
        IF isPaused(St)
        THEN SameSchedule(unpause(St, FALSE), unpause(Twin(St), FALSE))
        ELSE /\ \A ms \in AddTimes :
                  SameSchedule(addTime(St, ms, FALSE), addTime(Twin(St), ms, FALSE))
             /\ \A ms \in SetTimes :
                  SameSchedule(setTime(St, ms, FALSE), setTime(Twin(St), ms, FALSE))
             /\ \A sp \in Speeds :
                  SameSchedule(setSpeedMultiplier(St, sp), setSpeedMultiplier(Twin(St), sp))

====
